---- MODULE Spec2Model ----
(***************************************************************************)
(* Pharmacovigilance monitor: quarterly normalisation of openFDA counts    *)
(* (data_collection.py), the statistical detectors, comparison and summary *)
(* (forecasting.py) and the start of the programs api_server.py, main.py.   *)
(*                                                                         *)
(* A DataFrame is a sequence of rows; a row is a record whose fields are   *)
(* the columns.  A float is an exact rational [n, d]; d = 0 encodes the    *)
(* non-finite floats: NaN = 0/0 and inf = 1/0.                             *)
(***************************************************************************)
EXTENDS Integers, Sequences, FiniteSets, TLC

VARIABLES
    events,      \* data['results'] of the openFDA response: rows [receivedate, count]
    fetched,     \* fetch_fda_adverse_events has returned
    df,          \* the adverse-event DataFrame handed to the analysis functions
    df0,         \* history: df as the normalizer produced it
    called,      \* the analysis functions that have returned
    anomalies,   \* result of detect_anomalies
    signals,     \* result of detect_safety_signals
    threshold,   \* argument of detect_anomalies
    min_reports, \* argument of detect_safety_signals
    cache,       \* api_server._cache; <<>> while line 15 has not created it
    cache_src,   \* history: the run that wrote each field of _cache (0: never written)
    runs,        \* the background tasks running run_monitoring_pipeline
    data_dict,   \* argument of compare_drug_trends: its items, in iteration order
    comparison,  \* result of compare_drug_trends
    forecast_df, \* the forecast handed to generate_summary_stats
    summary_stats, \* result of generate_summary_stats
    returned,    \* which of compare_drug_trends, generate_summary_stats has returned
    proc         \* the interpreter loading each entry module: how far it got

vars == <<events, fetched, df, df0, called, anomalies, signals, threshold,
          min_reports, cache, cache_src, runs, data_dict, comparison, forecast_df,
          summary_stats, returned, proc>>

normVars == <<events, fetched>>
detVars == <<df, df0, called, anomalies, signals, threshold, min_reports>>
srvVars == <<cache, cache_src, runs>>
libVars == <<data_dict, comparison, forecast_df, summary_stats, returned>>
procVars == <<proc>>

-----------------------------------------------------------------------------
(* Bounds *)

MaxEvents == 3
MaxLen == 5
MaxCount == 2
MaxHorizon == 2

-----------------------------------------------------------------------------
(* Floats *)

Rat(n, d) == [n |-> n, d |-> d]
NaN == Rat(0, 0)
Inf == Rat(1, 0)

\* x > y for floats with non-negative denominators; any comparison with NaN is False
RatGt(x, y) ==
    IF x = NaN \/ y = NaN THEN FALSE
    ELSE IF x.d = 0 THEN x.n > 0 /\ y.d # 0
    ELSE IF y.d = 0 THEN y.n < 0
    ELSE x.n * y.d > y.n * x.d

RECURSIVE SumSeq(_)
SumSeq(s) == IF s = <<>> THEN 0 ELSE Head(s) + SumSeq(Tail(s))

Col(frame, c) == [i \in 1..Len(frame) |-> frame[i][c]]

-----------------------------------------------------------------------------
(* Dates.  receivedate arrives as the digits YYYYMMDD; a Timestamp is        *)
(* [y, m, d]; NaT is the month-0 record.                                     *)

NaT == [y |-> 0, m |-> 0, d |-> 0]

IsLeap(y) == (y % 4 = 0 /\ y % 100 # 0) \/ y % 400 = 0

DaysInMonth(y, m) ==
    IF m = 2 THEN (IF IsLeap(y) THEN 29 ELSE 28)
    ELSE IF m \in {4, 6, 9, 11} THEN 30 ELSE 31

\* the days whose midnight a datetime64[ns] can hold: Timestamp.min is
\* 1677-09-21 00:12:43.145224193 and Timestamp.max 2262-04-11 23:47:16.854775807
TimestampMinDay == 16770922
TimestampMaxDay == 22620411

\* pd.to_datetime(str, format='%Y%m%d', errors='coerce') of eight digits: NaT
\* for digits that are no calendar day and for a day out of the bounds of
\* datetime64[ns]
to_datetime(s) ==
    LET y == s \div 10000
        m == (s \div 100) % 100
        d == s % 100
    IN  IF s >= TimestampMinDay /\ s <= TimestampMaxDay
           /\ m \in 1..12 /\ d >= 1 /\ d <= DaysInMonth(y, m)
        THEN [y |-> y, m |-> m, d |-> d]
        ELSE NaT

\* ordinal of the calendar quarter holding a timestamp
QuarterOf(t) == t.y * 4 + (t.m - 1) \div 3

\* the label resample('Q') gives a bin: the last day of the quarter
QuarterEnd(q) ==
    LET y == q \div 4
        k == q % 4
    IN  y * 10000 + (IF k = 0 THEN 331 ELSE IF k = 1 THEN 630 ELSE IF k = 2 THEN 930 ELSE 1231)

DateKey(t) == t.y * 10000 + t.m * 100 + t.d

-----------------------------------------------------------------------------
(* data_collection.fetch_fda_adverse_events, from the decoded response on  *)

\* the receivedate values and counts a response may carry: two days of one
\* quarter, the quarter before, a later quarter with a gap between, digits
\* that are no date, a day before the first Timestamp, a day of the last quarter
\* a Timestamp reaches into, and 0 for a row without the field
RawDates == {20221101, 20230115, 20230220, 20230701, 20231340, 16000101, 22620401, 0}
RawCounts == {-1, 2}
RawEvent == [receivedate : RawDates, count : RawCounts]

RECURSIVE SeqsUpTo(_, _)
SeqsUpTo(S, n) ==
    IF n = 0 THEN {<<>>}
    ELSE LET shorter == SeqsUpTo(S, n - 1)
         IN  shorter \cup {Append(s, x) : s \in {t \in shorter : Len(t) = n - 1}, x \in S}

\* df['receivedate'] = pd.to_datetime(..., errors='coerce')
parse_receivedate(results) ==
    [i \in 1..Len(results) |->
        [receivedate |-> to_datetime(results[i].receivedate), count |-> results[i].count]]

\* df.dropna(subset=['receivedate'])
IsDated(row) == row.receivedate # NaT
dropna(frame) == SelectSeq(frame, IsDated)

\* a stable insertion of one row into a frame ordered by receivedate
RECURSIVE InsertByDate(_, _)
InsertByDate(sorted, row) ==
    IF sorted = <<>> THEN <<row>>
    ELSE IF DateKey(Head(sorted).receivedate) <= DateKey(row.receivedate)
         THEN <<Head(sorted)>> \o InsertByDate(Tail(sorted), row)
         ELSE <<row>> \o sorted

SortByDate_Unsorted(frame) == frame

\* resample orders the index before it bins it
RECURSIVE SortByDate(_)
SortByDate(frame) ==
    IF frame = <<>> THEN <<>>
    ELSE InsertByDate(SortByDate(SubSeq(frame, 1, Len(frame) - 1)), frame[Len(frame)])

\* .agg({'count': 'sum'}) of the rows of one bin
RECURSIVE BinSum(_, _)
BinSum(frame, q) ==
    IF frame = <<>> THEN 0
    ELSE (IF QuarterOf(Head(frame).receivedate) = q THEN Head(frame).count ELSE 0)
         + BinSum(Tail(frame), q)

\* df.set_index('receivedate').resample('Q').agg({'count': 'sum'}).reset_index()
\* with the columns renamed ds, y: one bin per quarter from the first to the last
\* row of the ordered index, an empty bin summing to 0
resample_Q_sum(frame) ==
    LET ax == SortByDate(frame)
        first == QuarterOf(ax[1].receivedate)
        last == QuarterOf(ax[Len(ax)].receivedate)
    IN  IF frame = <<>> THEN <<>>
        ELSE [k \in 1..(last - first + 1) |->
                 [ds |-> QuarterEnd(first + k - 1), y |-> BinSum(ax, first + k - 1)]]

\* the two edges resample computes before it bins, Timestamp(first - freq) and
\* Timestamp(last + freq): the quarter end before the first row of the ordered
\* index and the quarter end after the last
first_edge(frame) == QuarterEnd(QuarterOf(SortByDate(frame)[1].receivedate) - 1)
last_edge(frame) ==
    LET last == SortByDate(frame)[Len(frame)].receivedate
    IN  IF DateKey(last) = QuarterEnd(QuarterOf(last))
        THEN QuarterEnd(QuarterOf(last) + 1)
        ELSE QuarterEnd(QuarterOf(last))

\* an edge that no datetime64[ns] holds: resample raises OutOfBoundsDatetime
OutOfBoundsDatetime(frame) ==
    /\ frame # <<>>
    /\ first_edge(frame) < TimestampMinDay \/ last_edge(frame) > TimestampMaxDay

\* lines 22-35.  An empty result list has no receivedate column: the KeyError is
\* caught (line 33) and an empty DataFrame returned, as when every row is
\* dropped; so is the error of a resample whose edges are out of bounds
fetch_fda_adverse_events(results) ==
    IF results = <<>> THEN <<>>
    ELSE LET dated == dropna(parse_receivedate(results))
         IN  IF OutOfBoundsDatetime(dated) THEN <<>> ELSE resample_Q_sum(dated)

InitLibIdle ==
    /\ data_dict = <<>> /\ comparison = <<>> /\ forecast_df = <<>> /\ summary_stats = <<>>
    /\ returned = {}

InitDetectIdle ==
    /\ df = <<>> /\ df0 = <<>> /\ called = {} /\ anomalies = <<>> /\ signals = <<>>
    /\ threshold = Rat(2, 1) /\ min_reports = 10

\* the modules that are run as programs, and an interpreter that has run none
Entry == {"api_server", "main"}
NotStarted == [e \in Entry |-> "not_started"]

\* no entry module has run: api_server.py line 15 has not created _cache and
\* no background task exists
InitServerIdle ==
    /\ proc = NotStarted
    /\ cache = <<>>
    /\ cache_src = <<>>
    /\ runs = <<>>

InitNormalize ==
    /\ events \in SeqsUpTo(RawEvent, MaxEvents)
    /\ fetched = FALSE
    /\ InitDetectIdle
    /\ InitServerIdle
    /\ InitLibIdle

\* one call of fetch_fda_adverse_events on the response
Fetch ==
    /\ ~fetched
    /\ fetched' = TRUE
    /\ df' = fetch_fda_adverse_events(events)
    /\ df0' = df'
    /\ UNCHANGED <<events, called, anomalies, signals, threshold, min_reports>>
    /\ UNCHANGED srvVars
    /\ UNCHANGED libVars
    /\ UNCHANGED procVars

NextNormalize == Fetch

SpecNormalize == InitNormalize /\ [][NextNormalize]_vars

-----------------------------------------------------------------------------
(* forecasting.detect_anomalies and forecasting.detect_safety_signals *)

\* df[c] = values: the column is added to df, or overwritten if df has it
SetColumns(row, new) ==
    [c \in (DOMAIN row) \cup (DOMAIN new) |-> IF c \in DOMAIN new THEN new[c] ELSE row[c]]

Window == 4
MinPeriods == 1

rolling_Window3(y, i) == SubSeq(y, (IF i - 3 + 1 < 1 THEN 1 ELSE i - 3 + 1), i)

\* the window of df['y'].rolling(window=4, min_periods=1) at row i: the rows
\* i-3..i that exist
rolling(y, i) == SubSeq(y, (IF i - Window + 1 < 1 THEN 1 ELSE i - Window + 1), i)

SumSq(w) == SumSeq([k \in 1..Len(w) |-> w[k] * w[k]])

\* .mean() of a window
rolling_mean(w) == IF Len(w) < MinPeriods THEN NaN ELSE Rat(SumSeq(w), Len(w))

rolling_std_Population(w) ==
    IF Len(w) < 2 THEN [sqrt_of |-> NaN]
    ELSE [sqrt_of |-> Rat(Len(w) * SumSq(w) - SumSeq(w) * SumSeq(w), Len(w) * Len(w))]

\* .std() of a window (ddof = 1), kept exact as the variance under the root:
\* (n * sum(x^2) - sum(x)^2) / (n * (n - 1)); NaN for a window of one row
rolling_std(w) ==
    IF Len(w) < 2 THEN [sqrt_of |-> NaN]
    ELSE [sqrt_of |-> Rat(Len(w) * SumSq(w) - SumSeq(w) * SumSeq(w), Len(w) * (Len(w) - 1))]

\* (df['y'] - df['mean']) / (df['std'] + 1e-10), kept as its two operands
z_score_of(y, mean, std) ==
    IF mean = NaN \/ std.sqrt_of = NaN THEN [dev |-> NaN, std |-> std]
    ELSE [dev |-> Rat(y * mean.d - mean.n, mean.d), std |-> std]

abs_z_gt_Below(z, t) ==
    IF z.dev = NaN THEN FALSE
    ELSE LET var == z.std.sqrt_of
         IN  z.dev.n * z.dev.n * var.d * t.d * t.d < t.n * t.n * var.n * z.dev.d * z.dev.d

\* abs(z_score) > threshold.  A NaN z_score compares False.  Otherwise
\* |dev| / (sqrt(var) + 1e-10) > t is decided on the squares: for integer counts
\* var is 0 (and then dev is 0) or at least 1/12, and the two sides of the
\* squared comparison are rationals with small denominators, so the 1e-10 never
\* turns a strict inequality round; on equality it makes |z| fall just short of t.
abs_z_gt(z, t) ==
    IF z.dev = NaN THEN FALSE
    ELSE LET var == z.std.sqrt_of
         IN  z.dev.n * z.dev.n * var.d * t.d * t.d > t.n * t.n * var.n * z.dev.d * z.dev.d

\* lines 44-49: the four columns detect_anomalies writes into df
anomaly_columns(frame, t) ==
    LET y == Col(frame, "y")
    IN  [i \in 1..Len(frame) |->
            LET w == rolling(y, i)
                mean == rolling_mean(w)
                std == rolling_std(w)
                z == z_score_of(y[i], mean, std)
            IN  SetColumns(frame[i],
                    [mean |-> mean, std |-> std, z_score |-> z,
                     is_anomaly |-> abs_z_gt(z, t)])]

IsAnomalyRow(row) == row.is_anomaly

\* detect_anomalies(df, threshold): what it returns and what it leaves in df
detect_anomalies(frame, t) ==
    IF frame = <<>> \/ Len(frame) < 3
    THEN [result |-> <<>>, df |-> frame]
    ELSE LET marked == anomaly_columns(frame, t)
         IN  [result |-> SelectSeq(marked, IsAnomalyRow), df |-> marked]

\* df['y'].pct_change() * 100: y[i] / y[i-1] - 1, NaN in the first row; a
\* division by zero gives inf, -inf or (0 / 0) NaN
pct_change_100(y, i) ==
    IF i = 1 THEN NaN
    ELSE IF y[i - 1] = 0
         THEN (IF y[i] > 0 THEN Inf ELSE IF y[i] < 0 THEN Rat(-1, 0) ELSE NaN)
         ELSE IF y[i - 1] > 0 THEN Rat(100 * (y[i] - y[i - 1]), y[i - 1])
              ELSE Rat(-100 * (y[i] - y[i - 1]), -y[i - 1])

\* df['y'].diff(): NaN in the first row
diff(y, i) == IF i = 1 THEN NaN ELSE Rat(y[i] - y[i - 1], 1)

\* lines 64-65: the two columns detect_safety_signals writes into df
signal_columns(frame) ==
    LET y == Col(frame, "y")
    IN  [i \in 1..Len(frame) |->
            SetColumns(frame[i],
                [pct_change |-> pct_change_100(y, i), abs_change |-> diff(y, i)])]

\* detect_safety_signals(df, min_reports): what it returns and what it leaves in df
detect_safety_signals(frame, m) ==
    IF frame = <<>> \/ Len(frame) < 2
    THEN [result |-> <<>>, df |-> frame]
    ELSE LET marked == signal_columns(frame)
             IsSignalRow(row) ==
                 RatGt(row.abs_change, Rat(m, 1)) /\ RatGt(row.pct_change, Rat(50, 1))
         IN  [result |-> SelectSeq(marked, IsSignalRow), df |-> marked]

\* the arguments the detectors are called with; 2.0 and 10 are the configured defaults
Thresholds == {Rat(1, 2), Rat(1, 1), Rat(3, 2), Rat(2, 1)}
MinReportsSet == {0, 1, 2, 10}

\* the series a normalizer can hand over: consecutive quarters, counts >= 0
BaseQuarter == 2023 * 4
QuarterSeries(counts) ==
    [k \in 1..Len(counts) |-> [ds |-> QuarterEnd(BaseQuarter + k - 1), y |-> counts[k]]]

InitNormalizeIdle == events = <<>> /\ fetched = FALSE

InitDetect ==
    /\ \E counts \in SeqsUpTo(0..MaxCount, MaxLen) : df = QuarterSeries(counts)
    /\ df0 = df
    /\ called = {}
    /\ anomalies = <<>>
    /\ signals = <<>>
    /\ threshold = Rat(2, 1)
    /\ min_reports = 10
    /\ InitNormalizeIdle
    /\ InitServerIdle
    /\ InitLibIdle

\* anomalies = detect_anomalies(df, threshold)
DetectAnomalies ==
    /\ "detect_anomalies" \notin called
    /\ \E t \in Thresholds :
          /\ threshold' = t
          /\ anomalies' = detect_anomalies(df, t).result
          /\ df' = detect_anomalies(df, t).df
    /\ called' = called \cup {"detect_anomalies"}
    /\ UNCHANGED <<df0, signals, min_reports>>
    /\ UNCHANGED normVars
    /\ UNCHANGED srvVars
    /\ UNCHANGED libVars
    /\ UNCHANGED procVars

\* signals = detect_safety_signals(df, min_reports)
DetectSafetySignals ==
    /\ "detect_safety_signals" \notin called
    /\ \E m \in MinReportsSet :
          /\ min_reports' = m
          /\ signals' = detect_safety_signals(df, m).result
          /\ df' = detect_safety_signals(df, m).df
    /\ called' = called \cup {"detect_safety_signals"}
    /\ UNCHANGED <<df0, anomalies, threshold>>
    /\ UNCHANGED normVars
    /\ UNCHANGED srvVars
    /\ UNCHANGED libVars
    /\ UNCHANGED procVars

NextDetect == DetectAnomalies \/ DetectSafetySignals

SpecDetect == InitDetect /\ [][NextDetect]_vars

-----------------------------------------------------------------------------
(* forecasting: the Prophet wrapper, the comparison and the summary *)

\* config.load_config defaults
ForecastHorizonQuarters == 4

NoModel == [fitted |-> FALSE, history |-> <<>>]

\* train_prophet_model(df, config): None below two rows, else a model fitted on df
train_prophet_model(frame) ==
    IF frame = <<>> \/ Len(frame) < 2 THEN NoModel
    ELSE [fitted |-> TRUE, history |-> Col(frame, "ds")]

\* the levels a fit may settle on
FitLevels == {1, 2}

\* model.predict on row k of the future frame.  The fit is Prophet's; the model
\* keeps only that each row carries an estimate between its two bounds, chosen
\* by the fit (level) and differing from row to row.
predict(level, k) ==
    [yhat |-> Rat(100 * level + 32 * k, 100),
     yhat_lower |-> Rat(100 * level + 32 * k - 164, 100),
     yhat_upper |-> Rat(100 * level + 32 * k + 164, 100)]

\* generate_forecast(model, periods): empty without a model; else the history
\* dates followed by `periods` quarter ends after the last of them
generate_forecast(model, periods, level) ==
    IF ~model.fitted THEN <<>>
    ELSE LET h == Len(model.history)
             last == QuarterOf(to_datetime(model.history[h]))
         IN  [k \in 1..(h + periods) |->
                 SetColumns(predict(level, k),
                     [ds |-> IF k <= h THEN model.history[k] ELSE QuarterEnd(last + (k - h))])]

\* floor(log2(n / d)) for n, d > 0: the binary exponent of the float n / d
RECURSIVE Log2Floor(_, _)
Log2Floor(n, d) ==
    IF n >= 2 * d THEN 1 + Log2Floor(n, 2 * d)
    ELSE IF n < d THEN Log2Floor(2 * n, d) - 1
    ELSE 0

\* what is left of f / d after k more binary digits
RECURSIVE BinaryRemainder(_, _, _)
BinaryRemainder(f, d, k) ==
    IF k = 0 THEN f ELSE BinaryRemainder((2 * f) % d, d, k - 1)

MantissaBits == 53

\* the float64 nearest to n / d (n, d > 0) is n / d + err / d * 2^(e - 52), e the
\* binary exponent: err is 0 when n / d is a float64, negative when the float
\* lies below it, positive when above
float64_error(n, d) ==
    LET r == BinaryRemainder(n % d, d, MantissaBits - 1 - Log2Floor(n, d))
    IN  IF 2 * r <= d THEN -r ELSE d - r

\* np.float64.__round__(places) of n / d >= 0 as the integer rint(x * scale):
\* the float x is multiplied by scale and that product is rounded half to even.
\* Only when n * scale / d is a half exactly can the float's own error decide:
\* the product then is the half itself (error within half a unit in its last
\* place; below 1/2 the floats lie twice as dense) or a float on the side the
\* error points to.
round_half(n, d, scale) ==
    LET q == (n * scale) \div d
        err == float64_error(n, d)
        j == Log2Floor(2 * q + 1, 2) - Log2Floor(n, d)
        size == IF err < 0 THEN -err ELSE err
        unit == IF q = 0 /\ err < 0 THEN 4 ELSE 2
    IN  IF unit * scale * size <= d * 2^j
        THEN (IF q % 2 = 0 THEN q ELSE q + 1)
        ELSE IF err < 0 THEN q ELSE q + 1

RoundNonNegative(n, d, scale) ==
    LET q == (n * scale) \div d
        r == (n * scale) % d
    IN  IF 2 * r < d THEN q
        ELSE IF 2 * r > d THEN q + 1
        ELSE round_half(n, d, scale)

\* round(x, places) of a finite float x = n / d (d > 0), scale = 10^places
RoundScaled(x, scale) ==
    IF x.n >= 0 THEN RoundNonNegative(x.n, x.d, scale)
    ELSE -RoundNonNegative(-x.n, x.d, scale)

round(x, scale) == IF x.d = 0 THEN x ELSE Rat(RoundScaled(x, scale), scale)

SeqMax(s) == CHOOSE m \in {s[i] : i \in 1..Len(s)} : \A i \in 1..Len(s) : s[i] <= m
SeqMin(s) == CHOOSE m \in {s[i] : i \in 1..Len(s)} : \A i \in 1..Len(s) : s[i] >= m

\* round(df['y'].std(), 2): the sample standard deviation (NaN for one row).
\* A variance that is the square of a fraction gives that fraction, rounded as
\* round does; any other root is no half of a hundredth, and the result is the h
\* with h - 1/2 < 100 * std < h + 1/2
round_std(y, scale) ==
    LET var == rolling_std(y).sqrt_of
        reach == SeqMax(y) - SeqMin(y)
        roots == {s \in 0..(var.d * reach) : s * s = var.n * var.d}
    IN  IF var = NaN THEN NaN
        ELSE IF roots # {} THEN round(Rat(CHOOSE s \in roots : TRUE, var.d), scale)
        ELSE Rat(CHOOSE h \in 0..(scale * reach + 1) :
                     /\ (2 * h - 1) * (2 * h - 1) * var.d < 4 * scale * scale * var.n
                        \/ h = 0
                     /\ 4 * scale * scale * var.n < (2 * h + 1) * (2 * h + 1) * var.d,
                 scale)

\* Timestamp.strftime('%Y-%m-%d'): the three fields between the dashes
strftime(ds) == <<ds \div 10000, (ds \div 100) % 100, ds % 100>>

ForecastKeys == {"forecast_next_quarter", "forecast_upper_bound", "forecast_lower_bound"}

future_rows_Inclusive(forecast, last) ==
    LET IsFuture(row) == row.ds >= last
    IN  SelectSeq(forecast, IsFuture)

\* line 115: forecast[forecast['ds'] > df['ds'].max()]
future_rows(forecast, last) ==
    LET IsFuture(row) == row.ds > last
    IN  SelectSeq(forecast, IsFuture)

\* generate_summary_stats(df, forecast)
generate_summary_stats(frame, forecast) ==
    IF frame = <<>> THEN <<>>
    ELSE LET y == Col(frame, "y")
             ds == Col(frame, "ds")
             stats ==
                 [total_reports |-> SumSeq(y),
                  avg_quarterly_reports |-> round(Rat(SumSeq(y), Len(y)), 100),
                  std_quarterly_reports |-> round_std(y, 100),
                  trend |-> IF y[Len(y)] > y[1] THEN "increasing" ELSE "decreasing",
                  recent_quarter_reports |-> y[Len(y)],
                  data_start |-> strftime(SeqMin(ds)),
                  data_end |-> strftime(SeqMax(ds))]
             future_forecast == future_rows(forecast, SeqMax(ds))
         IN  IF forecast # <<>> /\ future_forecast # <<>>
             THEN SetColumns(stats,
                      [forecast_next_quarter |-> round(future_forecast[1].yhat, 10),
                       forecast_upper_bound |-> round(future_forecast[1].yhat_upper, 10),
                       forecast_lower_bound |-> round(future_forecast[1].yhat_lower, 10)])
             ELSE stats

idxmax_Last(y) == CHOOSE i \in 1..Len(y) : y[i] = SeqMax(y) /\ \A j \in (i + 1)..Len(y) : y[j] < y[i]

\* df['y'].idxmax(): the first row holding the maximum
idxmax(y) == CHOOSE i \in 1..Len(y) : y[i] = SeqMax(y) /\ \A j \in 1..(i - 1) : y[j] < y[i]

\* one row of compare_drug_trends, for a non-empty frame
comparison_row(drug, frame) ==
    LET y == Col(frame, "y")
        n == Len(y)
        recent_trend == IF n >= 4 THEN Rat(SumSeq(SubSeq(y, n - 3, n)), 4)
                        ELSE Rat(SumSeq(y), n)
    IN  [drug |-> drug,
         total_reports |-> SumSeq(y),
         recent_avg_quarterly |-> round(recent_trend, 10),
         peak_quarter |-> frame[idxmax(y)].ds,
         peak_reports |-> SeqMax(y)]

\* compare_drug_trends(data_dict), data_dict as its items in iteration order
RECURSIVE compare_drug_trends(_)
compare_drug_trends(items) ==
    IF items = <<>> THEN <<>>
    ELSE (IF Head(items).df = <<>> THEN <<>>
          ELSE <<comparison_row(Head(items).drug, Head(items).df)>>)
         \o compare_drug_trends(Tail(items))

\* the series compare_drug_trends is given beside a drawn one: none, and the
\* three quarters 10, 20, 5
ExampleCounts == {<<>>, <<10, 20, 5>>}

InitCompare ==
    /\ \E c1 \in SeqsUpTo(0..MaxCount, MaxLen), c2 \in ExampleCounts :
          data_dict = <<[drug |-> "semaglutide", df |-> QuarterSeries(c1)],
                        [drug |-> "wegovy", df |-> QuarterSeries(c2)]>>
    /\ comparison = <<>>
    /\ forecast_df = <<>>
    /\ summary_stats = <<>>
    /\ returned = {}
    /\ InitNormalizeIdle
    /\ InitDetectIdle
    /\ InitServerIdle

\* comparison = compare_drug_trends(all_data)
Compare ==
    /\ "compare_drug_trends" \notin returned
    /\ comparison' = compare_drug_trends(data_dict)
    /\ returned' = returned \cup {"compare_drug_trends"}
    /\ UNCHANGED <<data_dict, forecast_df, summary_stats>>
    /\ UNCHANGED normVars
    /\ UNCHANGED detVars
    /\ UNCHANGED srvVars
    /\ UNCHANGED procVars

NextCompare == Compare

SpecCompare == InitCompare /\ [][NextCompare]_vars

\* the horizons a forecast is asked for; config's default is 4
Horizons == 0..MaxHorizon

InitSummary ==
    /\ \E counts \in SeqsUpTo(0..MaxCount, MaxLen) : df = QuarterSeries(counts)
    /\ df0 = df
    /\ called = {}
    /\ anomalies = <<>>
    /\ signals = <<>>
    /\ threshold = Rat(2, 1)
    /\ min_reports = 10
    /\ InitLibIdle
    /\ InitNormalizeIdle
    /\ InitServerIdle

\* forecast = generate_forecast(train_prophet_model(...), periods), fitted on
\* df or, for a forecast that was made for another series, on 10, 20, 5
MakeForecast ==
    /\ returned = {}
    /\ \E fit \in {df, QuarterSeries(<<10, 20, 5>>)}, periods \in Horizons, level \in FitLevels :
          forecast_df' = generate_forecast(train_prophet_model(fit), periods, level)
    /\ returned' = returned \cup {"generate_forecast"}
    /\ UNCHANGED <<data_dict, comparison, summary_stats>>
    /\ UNCHANGED normVars
    /\ UNCHANGED detVars
    /\ UNCHANGED srvVars
    /\ UNCHANGED procVars

\* summary = generate_summary_stats(df, forecast); without a model the forecast
\* is the empty DataFrame
Summarize ==
    /\ "generate_summary_stats" \notin returned
    /\ summary_stats' = generate_summary_stats(df, forecast_df)
    /\ returned' = returned \cup {"generate_summary_stats"}
    /\ UNCHANGED <<data_dict, comparison, forecast_df>>
    /\ UNCHANGED normVars
    /\ UNCHANGED detVars
    /\ UNCHANGED srvVars
    /\ UNCHANGED procVars

NextSummary == MakeForecast \/ Summarize

SpecSummary == InitSummary /\ [][NextSummary]_vars

-----------------------------------------------------------------------------
(* The programs as they are started: python api_server.py (or a server      *)
(* importing api_server:app) and python main.py.  Each runs the import       *)
(* statements at the head of its module before anything else.                *)

\* src/visualization.py as a whole: the ')' that ends line 87 closes nothing, so
\* the file does not compile
visualization_compiles == FALSE

\* from visualization import ...: the module is compiled, then run
import_visualization == IF visualization_compiles THEN "loaded" ELSE "SyntaxError"

\* no module body has run: there is no _cache yet; events is what openFDA would
\* answer for the target drug
Init ==
    /\ proc = NotStarted
    /\ events \in SeqsUpTo(RawEvent, MaxEvents)
    /\ fetched = FALSE
    /\ cache = <<>>
    /\ cache_src = <<>>
    /\ runs = <<>>
    /\ InitDetectIdle
    /\ InitLibIdle

\* api_server.py lines 1-10: the imports up to `from visualization import
\* create_dashboard`; an error there ends the program before line 12
LoadApiServer ==
    /\ proc["api_server"] = "not_started"
    /\ proc' = [proc EXCEPT !["api_server"] = import_visualization]
    /\ UNCHANGED normVars
    /\ UNCHANGED detVars
    /\ UNCHANGED srvVars
    /\ UNCHANGED libVars

\* main.py lines 3-7: the imports up to `from visualization import ...`; an
\* error there ends the program before main() is defined
LoadMain ==
    /\ proc["main"] = "not_started"
    /\ proc' = [proc EXCEPT !["main"] = import_visualization]
    /\ UNCHANGED normVars
    /\ UNCHANGED detVars
    /\ UNCHANGED srvVars
    /\ UNCHANGED libVars

Next == LoadApiServer \/ LoadMain

Spec == Init /\ [][Next]_vars

-----------------------------------------------------------------------------
(* Claims about the normalizer, under SpecNormalize *)

ValidIdx == {i \in 1..Len(events) : to_datetime(events[i].receivedate) # NaT}
EventQuarter(i) == QuarterOf(to_datetime(events[i].receivedate))

RECURSIVE CountOver(_)
CountOver(I) ==
    IF I = {} THEN 0
    ELSE LET i == CHOOSE j \in I : TRUE IN events[i].count + CountOver(I \ {i})

EarliestQuarter == CHOOSE q \in {EventQuarter(i) : i \in ValidIdx} :
                       \A i \in ValidIdx : q <= EventQuarter(i)
LatestQuarter == CHOOSE q \in {EventQuarter(i) : i \in ValidIdx} :
                     \A i \in ValidIdx : q >= EventQuarter(i)

\* C4: for a non-empty collection of validly dated events the series has exactly
\* one row per calendar quarter from the quarter of the earliest timestamp to the
\* quarter of the latest, in strictly increasing order; a row's count is the sum
\* of the counts of the events of its quarter, 0 for a quarter without events.
C4_GapFreeSeries ==
    (fetched /\ ValidIdx # {}) =>
        /\ Len(df) = LatestQuarter - EarliestQuarter + 1
        /\ \A k \in 1..Len(df) :
              /\ df[k].ds = QuarterEnd(EarliestQuarter + k - 1)
              /\ df[k].y = CountOver({i \in ValidIdx : EventQuarter(i) = EarliestQuarter + k - 1})
        /\ \A k \in 1..(Len(df) - 1) : df[k].ds < df[k + 1].ds

IsWellFormed(ev) == to_datetime(ev.receivedate) # NaT /\ ev.count >= 0

\* C5: an event with an unparseable or missing timestamp or with a negative count
\* contributes to no quarter: the series equals the normalization of the
\* well-formed events alone, and every count of it is >= 0.
C5_MalformedDropped ==
    fetched =>
        /\ df = fetch_fda_adverse_events(SelectSeq(events, IsWellFormed))
        /\ \A k \in 1..Len(df) : df[k].y >= 0

\* C6: normalizing any permutation of the events yields the identical series.
C6_OrderIndependent ==
    fetched =>
        \A p \in Permutations(1..Len(events)) :
            fetch_fda_adverse_events([i \in 1..Len(events) |-> events[p[i]]]) = df

\* events that arrive out of date order, two of them with the same timestamp
C6_Witness ==
    /\ fetched
    /\ Len(df) >= 2
    /\ \E i, j \in ValidIdx : i < j /\ events[i].receivedate > events[j].receivedate
    /\ \E i, j \in ValidIdx :
          i # j /\ events[i].receivedate = events[j].receivedate
                /\ events[i].count # events[j].count

-----------------------------------------------------------------------------
(* Claims about the detectors, under SpecDetect *)

Counts0 == Col(df0, "y")
InResult(result, i) == \E j \in 1..Len(result) : result[j].ds = df0[i].ds

\* C1: on a series of length >= 2, a period i >= 1 whose previous count is > 0 is
\* in the output of detect_safety_signals if and only if
\* count[i] - count[i-1] >= min_absolute_increase (inclusive) and
\* 100 * (count[i] - count[i-1]) / count[i-1] > 50.
C1_SignalConjunction ==
    ("detect_safety_signals" \in called /\ Len(df0) >= 2) =>
        \A i \in 2..Len(df0) :
            Counts0[i - 1] > 0 =>
                (InResult(signals, i) <=>
                    /\ Counts0[i] - Counts0[i - 1] >= min_reports
                    /\ 100 * (Counts0[i] - Counts0[i - 1]) > 50 * Counts0[i - 1])

\* C2: a period i >= 1 with count[i-1] = 0 and count[i] > 0 is flagged exactly
\* when count[i] - count[i-1] >= min_absolute_increase, and a 0 -> 0 step is
\* never flagged.
C2_ZeroBase ==
    ("detect_safety_signals" \in called /\ Len(df0) >= 2) =>
        \A i \in 2..Len(df0) :
            Counts0[i - 1] = 0 =>
                /\ Counts0[i] > 0 =>
                      (InResult(signals, i) <=> Counts0[i] - Counts0[i - 1] >= min_reports)
                /\ Counts0[i] = 0 => ~InResult(signals, i)

\* the claim's z-test at period i, on integers: the trailing window holds the last
\* min(i, 4) counts; with n its size, S its sum and Q its sum of squares the mean
\* is S / n and the sample variance (n * Q - S^2) / (n * (n - 1)), 0 for n = 1;
\* |count - mean| / (std + 1e-10) > t compared on the squares
RefWindow(i) == SubSeq(Counts0, i - (IF i < 4 THEN i ELSE 4) + 1, i)
RefZExceeds(i, t) ==
    LET w == RefWindow(i)
        n == Len(w)
        S == SumSeq(w)
        Q == SumSeq([k \in 1..n |-> w[k] * w[k]])
        D == n * Counts0[i] - S
        varNum == IF n = 1 THEN 0 ELSE n * Q - S * S
        varDen == IF n = 1 THEN 1 ELSE n * (n - 1)
    IN  D * D * varDen * t.d * t.d > t.n * t.n * varNum * n * n

\* C3: on a series of length >= 3, period i is in the output of detect_anomalies
\* if and only if |z_i| > z_threshold, with z_i taken over the trailing window of
\* the last min(i+1, 4) counts ending at i (std 0 for a window of one); the
\* flagged periods appear in chronological order, each at most once.
C3_AnomalyRule ==
    ("detect_anomalies" \in called /\ Len(df0) >= 3) =>
        /\ \A i \in 1..Len(df0) : InResult(anomalies, i) <=> RefZExceeds(i, threshold)
        /\ \A j \in 1..(Len(anomalies) - 1) : anomalies[j].ds < anomalies[j + 1].ds
        /\ \A j \in 1..Len(anomalies) : \E i \in 1..Len(df0) : anomalies[j].ds = df0[i].ds

\* a series long enough for a full window of 4, where a period judged over a
\* full window is flagged and another is not
C3_Witness ==
    /\ "detect_anomalies" \in called
    /\ Len(df0) >= 5
    /\ \E i \in 4..Len(df0) : InResult(anomalies, i)
    /\ \E i \in 4..Len(df0) : ~InResult(anomalies, i) /\ Counts0[i] # Counts0[i - 1]

\* C7: after a detector returns, the series passed in is unchanged: same rows,
\* same fields per row, same values.
C7_DetectorsPure == called # {} => df = df0

-----------------------------------------------------------------------------
(* Claims about a monitoring run, under Spec: the programs as started *)

\* the series the normalizer makes of what openFDA answers
Series == fetch_fda_adverse_events(events)

\* the programs that have been started
Started == {e \in Entry : proc[e] # "not_started"}

\* the fields of _cache (api_server.py lines 15-19), the value of a field that
\* is unset, and the pipeline runs that exist
CacheKeys == {"last_update", "data", "summary"}
None == [none |-> TRUE]
Run == 1..Len(runs)

C9_SinglePointRun ==
    (Started # {} /\ Len(Series) = 1) =>
        /\ \A t \in Thresholds : detect_anomalies(Series, t).result = <<>>
        /\ \A m \in MinReportsSet : detect_safety_signals(Series, m).result = <<>>
        /\ train_prophet_model(Series) = NoModel
        /\ \A level \in FitLevels :
              LET forecast == generate_forecast(train_prophet_model(Series),
                                                ForecastHorizonQuarters, level)
                  summary == generate_summary_stats(Series, forecast)
              IN  /\ forecast = <<>>
                  /\ summary # <<>>
                  /\ (DOMAIN summary) \cap ForecastKeys = {}
        /\ \A e \in Started : proc[e] = "loaded"

\* C10: an empty raw-event collection yields an empty series; on it the anomaly
\* detector, the signal detector, the comparator and the summary generator each
\* return an empty result; and a monitoring run on empty input raises nothing.
C10_EmptyInputRun ==
    (Started # {} /\ events = <<>>) =>
        /\ Series = <<>>
        /\ \A t \in Thresholds : detect_anomalies(Series, t).result = <<>>
        /\ \A m \in MinReportsSet : detect_safety_signals(Series, m).result = <<>>
        /\ compare_drug_trends(<<[drug |-> "ozempic", df |-> Series]>>) = <<>>
        /\ \A level \in FitLevels :
              generate_summary_stats(Series,
                  generate_forecast(train_prophet_model(Series),
                                    ForecastHorizonQuarters, level)) = <<>>
        /\ \A e \in Started : proc[e] # "SyntaxError"

-----------------------------------------------------------------------------
(* Claims about the comparison, under SpecCompare *)

RatEq(x, y) == x.n * y.d = y.n * x.d

HasRows(item) == item.df # <<>>
NonEmptyItems == SelectSeq(data_dict, HasRows)

\* the mean of the last 4 counts, or of all counts when fewer than 4 exist
RefRecentMean(y) ==
    LET n == Len(y)
        k == IF n < 4 THEN n ELSE 4
    IN  Rat(SumSeq(SubSeq(y, n - k + 1, n)), k)

RefMax(y) == CHOOSE m \in {y[i] : i \in 1..Len(y)} : \A i \in 1..Len(y) : m >= y[i]

\* the period of the earliest row attaining the maximum count
RefPeakPeriod(frame) ==
    LET y == Col(frame, "y")
        first == CHOOSE i \in 1..Len(y) :
                     y[i] = RefMax(y) /\ \A j \in 1..Len(y) : y[j] = RefMax(y) => i <= j
    IN  frame[first].ds

\* what C11 says of every row but its recent average
RowsMatchReference ==
    /\ Len(comparison) = Len(NonEmptyItems)
    /\ \A j \in 1..Len(comparison) :
          LET y == Col(NonEmptyItems[j].df, "y")
          IN  /\ comparison[j].drug = NonEmptyItems[j].drug
              /\ comparison[j].total_reports = SumSeq(y)
              /\ comparison[j].peak_reports = RefMax(y)
              /\ comparison[j].peak_quarter = RefPeakPeriod(NonEmptyItems[j].df)

\* C11 as stated: one row per id mapped to a non-empty series, none for an empty
\* one; total_count the sum, peak_count the maximum, peak_period the earliest
\* period attaining it, and recent_average the mean of the last 4 counts (of all
\* when fewer than 4), exactly or to two decimals: 11.67 for 10, 20, 5.
C11_ComparatorAsStated ==
    "compare_drug_trends" \in returned =>
        /\ RowsMatchReference
        /\ \A j \in 1..Len(comparison) :
              LET mean == RefRecentMean(Col(NonEmptyItems[j].df, "y"))
              IN  \/ RatEq(comparison[j].recent_avg_quarterly, mean)
                  \/ RatEq(comparison[j].recent_avg_quarterly, round(mean, 100))

\* C11, amended: as stated, but recent_average is that mean rounded to one
\* decimal place, half to even: 11.7 for 10, 20, 5.
C11_ComparatorRows ==
    "compare_drug_trends" \in returned =>
        /\ RowsMatchReference
        /\ \A j \in 1..Len(comparison) :
              LET mean == RefRecentMean(Col(NonEmptyItems[j].df, "y"))
              IN  comparison[j].recent_avg_quarterly = round(mean, 10)

\* a comparison of 10, 20, 5 with a series of five quarters whose maximum is
\* attained twice and whose last four counts have a mean that one decimal
\* cannot hold
C11_Witness ==
    /\ "compare_drug_trends" \in returned
    /\ Len(comparison) = 2
    /\ comparison[2].recent_avg_quarterly = Rat(117, 10)
    /\ comparison[2].peak_reports = 20
    /\ LET y == Col(data_dict[1].df, "y")
       IN  /\ Len(y) >= 5
           /\ \E i, j \in 1..Len(y) : i < j /\ y[i] = RefMax(y) /\ y[j] = RefMax(y)
           /\ ~RatEq(comparison[1].recent_avg_quarterly, RefRecentMean(y))
           /\ ~RatEq(RefRecentMean(y), Rat(SumSeq(y), Len(y)))

-----------------------------------------------------------------------------
(* Claims about the summary, under SpecSummary *)

\* the forecast points whose period is strictly after the series' last period
FuturePoints ==
    {k \in 1..Len(forecast_df) : forecast_df[k].ds > df0[Len(df0)].ds}

EarliestFuturePoint ==
    CHOOSE k \in FuturePoints : \A j \in FuturePoints : forecast_df[k].ds <= forecast_df[j].ds

\* C12: for a non-empty series the digest holds the three forecast fields if and
\* only if a forecast is supplied that has a point strictly after the series'
\* last period; the three are then taken (to one decimal) from the earliest such
\* point; for an empty series the digest is empty whatever the forecast.
C12_SummaryForecastFields ==
    "generate_summary_stats" \in returned =>
        IF df0 = <<>> THEN summary_stats = <<>>
        ELSE /\ summary_stats # <<>>
             /\ (ForecastKeys \subseteq DOMAIN summary_stats)
                    <=> (forecast_df # <<>> /\ FuturePoints # {})
             /\ (ForecastKeys \cap DOMAIN summary_stats) \in {{}, ForecastKeys}
             /\ FuturePoints # {} =>
                   LET point == forecast_df[EarliestFuturePoint]
                   IN  /\ summary_stats.forecast_next_quarter = round(point.yhat, 10)
                       /\ summary_stats.forecast_upper_bound = round(point.yhat_upper, 10)
                       /\ summary_stats.forecast_lower_bound = round(point.yhat_lower, 10)

\* a digest with the forecast fields, from a forecast that holds fitted points
\* up to the series' last period and more than one point after it
C12_Witness ==
    /\ "generate_summary_stats" \in returned
    /\ Len(df0) >= 2
    /\ Cardinality(FuturePoints) >= 2
    /\ \E k \in 1..Len(forecast_df) : forecast_df[k].ds = df0[Len(df0)].ds
    /\ ForecastKeys \subseteq DOMAIN summary_stats
    /\ ~RatEq(summary_stats.forecast_next_quarter, forecast_df[EarliestFuturePoint].yhat)

\* a digest of a non-empty series without the fields, though a forecast was given
C12_WitnessOmitted ==
    /\ "generate_summary_stats" \in returned
    /\ df0 # <<>>
    /\ forecast_df # <<>>
    /\ FuturePoints = {}
    /\ ForecastKeys \cap DOMAIN summary_stats = {}

-----------------------------------------------------------------------------
(* Claims about the anomaly detector across thresholds, under SpecDetect *)

\* the periods of the original series that detect_anomalies flags at threshold t
FlaggedAt(t) ==
    LET result == detect_anomalies(df0, t).result
    IN  {i \in 1..Len(df0) : InResult(result, i)}
Flagged == {i \in 1..Len(df0) : InResult(anomalies, i)}

\* t1 <= t2 for positive thresholds
RatLeq(t1, t2) == t1.n * t2.d <= t2.n * t1.d

\* C13: for a fixed series and two thresholds t1 <= t2 (both > 0), the set of
\* periods detect_anomalies flags at t2 is a subset of the set it flags at t1, so
\* raising the threshold never increases the number of flagged periods.
C13_AnomalyMonotone ==
    "detect_anomalies" \in called =>
        \A t2 \in Thresholds :
            LET at2 == FlaggedAt(t2)
            IN  /\ RatLeq(threshold, t2) =>
                      /\ at2 \subseteq Flagged
                      /\ Cardinality(at2) <= Len(anomalies)
                /\ RatLeq(t2, threshold) =>
                      /\ Flagged \subseteq at2
                      /\ Len(anomalies) <= Cardinality(at2)

\* a series where a higher threshold flags some of the periods flagged now, and
\* not all of them
C13_Witness ==
    /\ "detect_anomalies" \in called
    /\ \E t2 \in Thresholds :
          /\ RatLeq(threshold, t2) /\ t2 # threshold
          /\ FlaggedAt(t2) # {}
          /\ FlaggedAt(t2) # Flagged

\* the size of the rolling window at row i
WindowSize(i) == IF i < Window THEN i ELSE Window

\* z_i^2 <= (n - 1)^2 / n on the z_score column left in df, for a window with
\* a positive variance
WithinZBound(row, n) ==
    LET dev == row.z_score.dev
        var == row.std.sqrt_of
    IN  dev.n * dev.n * var.d * n <= (n - 1) * (n - 1) * var.n * dev.d * dev.d

\* C14: the window of the z-score includes the period being judged, so |z_i| never
\* exceeds (n - 1) / sqrt(n) for a window of n periods (1.5 for n = 4), a window
\* of one period or a flat window is never flagged, and for non-negative integer
\* counts and any z_threshold >= 1.5 (the default 2.0 included) detect_anomalies
\* returns no anomaly.
C14_ZScoreBounded ==
    ("detect_anomalies" \in called /\ Len(df0) >= 3) =>
        /\ \A i \in 1..Len(df) :
              IF WindowSize(i) = 1 \/ df[i].std.sqrt_of.n = 0
              THEN ~df[i].is_anomaly
              ELSE WithinZBound(df[i], WindowSize(i))
        /\ RatLeq(Rat(3, 2), threshold) => anomalies = <<>>
        /\ \A t2 \in Thresholds : RatLeq(Rat(3, 2), t2) => FlaggedAt(t2) = {}

\* a full window of 4 whose last period reaches |z| = 1.5 exactly, judged at a
\* threshold of 1.5 or more, and nothing is flagged
C14_Witness ==
    /\ "detect_anomalies" \in called
    /\ Len(df0) >= 4
    /\ RatLeq(Rat(3, 2), threshold)
    /\ anomalies = <<>>
    /\ \E i \in 4..Len(df) :
          LET dev == df[i].z_score.dev
              var == df[i].std.sqrt_of
          IN  /\ var.n > 0
              /\ dev.n * dev.n * var.d * 4 = 9 * var.n * dev.d * dev.d

====
